---- MODULE Spec2Model ----
(***************************************************************************)
(* Incremental data-loading subsystem of the photo organizer:              *)
(*   useRetry          (RetryExecutor)                                     *)
(*   useInfiniteScroll (InfiniteScrollController)                          *)
(*   useInfiniteAlbums (PaginatedAlbumLoader)                              *)
(*   ImagePreloader    (ImagePreloadCache)                                 *)
(* Each component has its own variables and its own specification; a      *)
(* specification leaves the variables of the other components unchanged.  *)
(***************************************************************************)
EXTENDS Integers, Sequences, FiniteSets, TLC

(***************************************************************************)
(* Generic helpers                                                         *)
(***************************************************************************)
Min(a, b) == IF a <= b THEN a ELSE b

RECURSIVE Pow(_, _)
Pow(b, e) == IF e = 0 THEN 1 ELSE b * Pow(b, e - 1)

\* String.prototype.includes on messages; a message is a sequence of tokens
Includes(s, t) ==
    \E i \in 1..(Len(s) - Len(t) + 1) : SubSeq(s, i, i + Len(t) - 1) = t

(***************************************************************************)
(* RetryExecutor: useRetry                                                 *)
(***************************************************************************)
VARIABLES
    cfg,          \* options of the hook instance
    retrying,     \* useState(false)
    retryCount,   \* useState(0)
    lastError,    \* useState(null)
    rpc,          \* position of the execute call: idle/calling/delaying/resolved/rejected
    attempt,      \* local variable attempt of the running execute call
    invocations,  \* number of times fn was invoked by the current execute call
    nThrown,      \* number of failures of fn in the current execute call
    lastThrown,   \* the value thrown by the latest failed invocation
    allAccepted,  \* every failure so far was an Error accepted by retryCondition
    waited,       \* number of backoff delays started by the current execute call
    lastDelay,    \* [base, jitter] of the latest backoff delay
    outcome,      \* how the current execute call settled
    execs         \* number of execute calls started

retryVars == <<cfg, retrying, retryCount, lastError, rpc, attempt, invocations,
               nThrown, lastThrown, allAccepted, waited, lastDelay, outcome, execs>>

\* Bounds of the retry driver
MaxRetriesCfg == 2
MaxInst == 2
MaxExecs == 2

NoError == [inst |-> 0, isError |-> FALSE, type |-> "none", msg |-> <<>>]
NoOutcome == [kind |-> "none"]
NoDelay == [base |-> 0, jitter |-> 0]

\* What an operation can throw: Error objects (identified by inst) and a non-Error value
ErrShapes ==
    { [isError |-> TRUE,  type |-> "Error",     msg |-> <<"network", "timeout">>],
      [isError |-> TRUE,  type |-> "Error",     msg |-> <<"validation", "error">>],
      [isError |-> TRUE,  type |-> "Error",     msg |-> <<"retryable", "failure">>],
      [isError |-> TRUE,  type |-> "Error",     msg |-> <<"fetch", "album", "not", "found">>],
      [isError |-> TRUE,  type |-> "TypeError", msg |-> <<"Custom", "error", "type">>],
      [isError |-> FALSE, type |-> "string",    msg |-> <<"string", "error">>],
      [isError |-> FALSE, type |-> "object",    msg |-> <<"network", "failure">>] }

Throwables ==
    { [inst |-> i, isError |-> s.isError, type |-> s.type, msg |-> s.msg] :
        i \in 1..MaxInst, s \in ErrShapes }

Values == {"success", "other"}

defaultRetryCondition(err) ==
    \/ Includes(err.msg, <<"network">>)
    \/ Includes(err.msg, <<"timeout">>)
    \/ Includes(err.msg, <<"fetch">>)

albumsRetryCondition(err) ==
    /\ ~Includes(err.msg, <<"not", "found">>)
    /\ ~Includes(err.msg, <<"invalid">>)

testRetryCondition(err) == Includes(err.msg, <<"retryable">>)

retryCondition(kind, err) ==
    CASE kind = "default" -> defaultRetryCondition(err)
      [] kind = "albums"  -> albumsRetryCondition(err)
      [] kind = "test"    -> testRetryCondition(err)

\* catch (error): error instanceof Error ? error : new Error('Unknown error')
UnknownError == [inst |-> 0, isError |-> TRUE, type |-> "Error", msg |-> <<"Unknown", "error">>]
NormalizeError_Identity(v) == v
NormalizeError(v) == IF v.isError THEN v ELSE UnknownError

\* if (attempt >= maxRetries || !retryCondition(err)) { setRetrying(false); throw err }
ShouldStop_Never(c, att, err) == FALSE
ShouldStop_OffByOne(c, att, err) == att > c.maxRetries \/ ~retryCondition(c.cond, err)
ShouldStop_IgnoreCondition(c, att, err) == att >= c.maxRetries
ShouldStop(c, att, err) == att >= c.maxRetries \/ ~retryCondition(c.cond, err)

\* success branch: setRetrying(false); setRetryCount(0); setLastError(null)
successState_KeepsError(prev) == [retrying |-> FALSE, retryCount |-> 0, lastError |-> prev]
successState(prev) == [retrying |-> FALSE, retryCount |-> 0, lastError |-> NoError]

\* Math.min(initialDelay * Math.pow(backoffFactor, attempt), maxDelay); backoffFactor = num/den
calculateDelayBase_Uncapped(c, att) ==
    (c.initialDelay * Pow(c.backoffNum, att)) \div Pow(c.backoffDen, att)
calculateDelayBase(c, att) ==
    Min((c.initialDelay * Pow(c.backoffNum, att)) \div Pow(c.backoffDen, att), c.maxDelay)

\* Math.random() * 0.1 * delayMs, in whole milliseconds
Jitters(delayMs) == { j \in 0..delayMs : j = 0 \/ 10 * j < delayMs }

RetryConfigs ==
    { [maxRetries |-> n, initialDelay |-> 10, maxDelay |-> m,
       backoffNum |-> b[1], backoffDen |-> b[2], cond |-> k] :
        n \in 0..MaxRetriesCfg, m \in {15, 25}, b \in {<<2, 1>>, <<3, 2>>},
        k \in {"default", "albums", "test"} }

RetryIdle ==
    /\ retrying = FALSE
    /\ retryCount = 0
    /\ lastError = NoError
    /\ rpc = "idle"
    /\ attempt = 0
    /\ invocations = 0
    /\ nThrown = 0
    /\ lastThrown = NoError
    /\ allAccepted = TRUE
    /\ waited = 0
    /\ lastDelay = NoDelay
    /\ outcome = NoOutcome
    /\ execs = 0

InitRetry == cfg \in RetryConfigs /\ RetryIdle

\* execute(fn): reset of retrying/retryCount, first pass of the loop up to `await fn()`
Execute ==
    /\ rpc \in {"idle", "resolved", "rejected"}
    /\ execs < MaxExecs
    /\ execs' = execs + 1
    /\ attempt' = 0
    /\ retrying' = FALSE
    /\ retryCount' = 0
    /\ invocations' = 1
    /\ nThrown' = 0
    /\ lastThrown' = NoError
    /\ allAccepted' = TRUE
    /\ waited' = 0
    /\ lastDelay' = NoDelay
    /\ outcome' = NoOutcome
    /\ rpc' = "calling"
    /\ UNCHANGED <<cfg, lastError>>

\* fn() resolved: success branch
FnResolve ==
    /\ rpc = "calling"
    /\ \E v \in Values : outcome' = [kind |-> "resolved", val |-> v]
    /\ retrying' = successState(lastError).retrying
    /\ retryCount' = successState(lastError).retryCount
    /\ lastError' = successState(lastError).lastError
    /\ rpc' = "resolved"
    /\ UNCHANGED <<cfg, attempt, invocations, nThrown, lastThrown, allAccepted,
                   waited, lastDelay, execs>>

\* fn() rejected: catch branch, then (when retrying) the top of the next loop pass
FnReject ==
    /\ rpc = "calling"
    /\ \E t \in Throwables :
        LET err == NormalizeError(t) IN
        /\ lastError' = err
        /\ lastThrown' = t
        /\ nThrown' = nThrown + 1
        /\ allAccepted' = (allAccepted /\ t.isError /\ retryCondition(cfg.cond, t))
        /\ IF ShouldStop(cfg, attempt, err)
           THEN /\ retrying' = FALSE
                /\ outcome' = [kind |-> "rejected", err |-> err]
                /\ rpc' = "rejected"
                /\ UNCHANGED <<attempt, retryCount, waited, lastDelay>>
           ELSE /\ attempt' = attempt + 1
                /\ retrying' = TRUE
                /\ retryCount' = attempt + 1
                /\ waited' = waited + 1
                /\ \E j \in Jitters(calculateDelayBase(cfg, attempt)) :
                     lastDelay' = [base |-> calculateDelayBase(cfg, attempt), jitter |-> j]
                /\ rpc' = "delaying"
                /\ UNCHANGED outcome
    /\ UNCHANGED <<cfg, invocations, execs>>

\* await delay(delayMs) elapsed: fn is invoked again
DelayElapsed ==
    /\ rpc = "delaying"
    /\ invocations' = invocations + 1
    /\ rpc' = "calling"
    /\ UNCHANGED <<cfg, retrying, retryCount, lastError, attempt, nThrown, lastThrown,
                   allAccepted, waited, lastDelay, outcome, execs>>

\* reset()
Reset ==
    /\ retrying' = FALSE
    /\ retryCount' = 0
    /\ lastError' = NoError
    /\ UNCHANGED <<cfg, rpc, attempt, invocations, nThrown, lastThrown, allAccepted,
                   waited, lastDelay, outcome, execs>>


(***************************************************************************)
(* InfiniteScrollController: useInfiniteScroll                             *)
(* React state is read by the callbacks through the closure of the render  *)
(* that created them, so the model keeps both the latest state and the     *)
(* values captured by the latest render.                                   *)
(***************************************************************************)
VARIABLES
    mounted,       \* the hook is mounted
    enabled,       \* options.enabled at the latest render
    isLoading,     \* useState(false), latest value
    hasNextPage,   \* useState(true), latest value
    sError,        \* useState(null), latest value
    rIsLoading,    \* isLoading captured by loadMore/handleIntersection of the latest render
    rHasNextPage,  \* hasNextPage captured by loadMore/handleIntersection of the latest render
    triggerEl,     \* triggerRef.current (0 is null)
    depEl,         \* triggerRef.current as read by the latest render for the effect deps
    obsConnected,  \* observerRef.current is an observer that was not disconnected
    obsTargets,    \* elements observed by that observer
    trigActive,    \* the trigger-ref effect's latest run registered a cleanup
    inflight,      \* fetch callbacks invoked and not settled
    calls,         \* fetch callback invocations so far
    lastAttempt    \* the latest invocation: began after an error, no other one overlapped it

scrollVars == <<mounted, enabled, isLoading, hasNextPage, sError, rIsLoading, rHasNextPage,
                triggerEl, depEl, obsConnected, obsTargets, trigActive, inflight, calls,
                lastAttempt>>

\* Bounds of the scroll driver
MaxEls == 2
MaxCalls == 3

NoMsg == [set |-> FALSE, msg |-> <<>>]
Msg(m) == [set |-> TRUE, msg |-> m]

\* What the fetch callback can reject with
ScrollThrowables == { t \in Throwables : t.inst = 1 /\ t.type \notin {"TypeError", "object"} }

\* err instanceof Error ? err.message : 'Unknown error occurred'
scrollErrorMessage_Raw(t) == Msg(t.msg)
scrollErrorMessage(t) ==
    IF t.isError THEN Msg(t.msg) ELSE Msg(<<"Unknown", "error", "occurred">>)

\* loadMore: if (isLoading || !hasNextPage) return
loadMoreGuard_Inverted(loading, hasNext) == loading \/ ~hasNext
loadMoreGuard(loading, hasNext) == ~(loading \/ ~hasNext)

\* handleIntersection: entry.isIntersecting && hasNextPage && !isLoading
intersectionGuard(isIntersecting, loading, hasNext) ==
    isIntersecting /\ hasNext /\ ~loading

\* trigger-ref effect: if (!element || !observer || !enabled) return; observer.observe(element)
observesSentinel_IgnoreEnabled(en, el) == el # 0
observesSentinel(en, el) == en /\ el # 0

InitScroll ==
    /\ mounted = TRUE
    /\ enabled \in BOOLEAN
    /\ isLoading = FALSE
    /\ hasNextPage = TRUE
    /\ sError = NoMsg
    /\ rIsLoading = FALSE
    /\ rHasNextPage = TRUE
    /\ triggerEl \in 0..MaxEls
    /\ depEl = 0
    /\ obsConnected = enabled
    /\ obsTargets = IF enabled /\ triggerEl # 0 THEN {triggerEl} ELSE {}
    /\ trigActive = (enabled /\ triggerEl # 0)
    /\ inflight = 0
    /\ calls = 0
    /\ lastAttempt = [afterError |-> FALSE, lone |-> FALSE]

\* loadMore past its guard: setIsLoading(true); setError(null); callbackRef.current() invoked
StartLoad ==
    /\ isLoading' = TRUE
    /\ sError' = NoMsg
    /\ inflight' = inflight + 1
    /\ calls' = calls + 1
    /\ lastAttempt' = [afterError |-> sError.set, lone |-> inflight = 0]

\* the caller invokes the loadMore returned by the latest render
ManualLoadMore ==
    /\ mounted
    /\ calls < MaxCalls
    /\ IF loadMoreGuard(rIsLoading, rHasNextPage)
       THEN StartLoad
       ELSE UNCHANGED <<isLoading, sError, inflight, calls, lastAttempt>>
    /\ UNCHANGED <<mounted, enabled, hasNextPage, rIsLoading, rHasNextPage, triggerEl,
                   depEl, obsConnected, obsTargets, trigActive>>

\* the observer reports an entry for the observed sentinel; its callback is the
\* handleIntersection of the render that created the observer
Intersect ==
    /\ mounted
    /\ calls < MaxCalls
    /\ obsConnected
    /\ obsTargets # {}
    /\ \E isIntersecting \in BOOLEAN :
        IF /\ intersectionGuard(isIntersecting, rIsLoading, rHasNextPage)
           /\ loadMoreGuard(rIsLoading, rHasNextPage)
        THEN StartLoad
        ELSE UNCHANGED <<isLoading, sError, inflight, calls, lastAttempt>>
    /\ UNCHANGED <<mounted, enabled, hasNextPage, rIsLoading, rHasNextPage, triggerEl,
                   depEl, obsConnected, obsTargets, trigActive>>

\* the awaited callback resolved: finally { setIsLoading(false) }
CallbackResolve ==
    /\ inflight > 0
    /\ inflight' = inflight - 1
    /\ isLoading' = FALSE
    /\ UNCHANGED <<mounted, enabled, hasNextPage, sError, rIsLoading, rHasNextPage,
                   triggerEl, depEl, obsConnected, obsTargets, trigActive, calls, lastAttempt>>

\* the awaited callback rejected: setError(message); finally { setIsLoading(false) }
CallbackReject ==
    /\ inflight > 0
    /\ inflight' = inflight - 1
    /\ \E t \in ScrollThrowables : sError' = scrollErrorMessage(t)
    /\ isLoading' = FALSE
    /\ UNCHANGED <<mounted, enabled, hasNextPage, rIsLoading, rHasNextPage,
                   triggerEl, depEl, obsConnected, obsTargets, trigActive, calls, lastAttempt>>

\* setHasNextPage exposed to the caller
SetHasNextPage ==
    /\ mounted
    /\ \E b \in BOOLEAN : hasNextPage' = b
    /\ UNCHANGED <<mounted, enabled, isLoading, sError, rIsLoading, rHasNextPage,
                   triggerEl, depEl, obsConnected, obsTargets, trigActive, inflight, calls,
                   lastAttempt>>

\* the sentinel reference is changed (ref attached, moved or detached)
AttachSentinel ==
    /\ mounted
    /\ \E e \in 0..MaxEls : triggerEl' = e
    /\ UNCHANGED <<mounted, enabled, isLoading, hasNextPage, sError, rIsLoading,
                   rHasNextPage, depEl, obsConnected, obsTargets, trigActive, inflight, calls,
                   lastAttempt>>

\* A render with its commit and effects.  usePerformanceMonitor returns a new
\* object at every render, so loadMore and handleIntersection are new at every
\* render and the observer effect runs every time: its cleanup disconnects the
\* previous observer and, when enabled, a new empty observer is created.  The
\* trigger-ref effect runs only when [triggerRef.current, enabled] changed.
Render ==
    /\ mounted
    /\ \E en \in BOOLEAN :
        LET depsChanged == (triggerEl # depEl) \/ (en # enabled)
            observes == observesSentinel(en, triggerEl)
        IN
        /\ enabled' = en
        /\ obsConnected' = en
        /\ IF depsChanged
           THEN /\ obsTargets' = IF observes THEN {triggerEl} ELSE {}
                /\ trigActive' = observes
           ELSE /\ obsTargets' = {}
                /\ UNCHANGED trigActive
    /\ rIsLoading' = isLoading
    /\ rHasNextPage' = hasNextPage
    /\ depEl' = triggerEl
    /\ UNCHANGED <<mounted, isLoading, hasNextPage, sError, triggerEl, inflight, calls,
                   lastAttempt>>

\* unmount: both effects' cleanups run
Unmount ==
    /\ mounted
    /\ mounted' = FALSE
    /\ obsConnected' = FALSE
    /\ obsTargets' = {}
    /\ trigActive' = FALSE
    /\ UNCHANGED <<enabled, isLoading, hasNextPage, sError, rIsLoading, rHasNextPage,
                   triggerEl, depEl, inflight, calls, lastAttempt>>

(***************************************************************************)
(* PaginatedAlbumLoader: useInfiniteAlbums                                 *)
(* The loader owns a useRetry instance (retrying, retryCount, lastError    *)
(* above are its state in the loader's specification).  Several page loads *)
(* may be in flight; each is an entry of loads.                            *)
(***************************************************************************)
VARIABLES
    albums,           \* useState([]): accumulated album ids
    currentPage,      \* useState(1)
    loading,          \* useState(false)
    aError,           \* useState(null)
    aHasNextPage,     \* useState(true)
    lastFailedPage,   \* useState(null), 0 is null
    rCurrentPage,     \* currentPage captured by the callbacks of the latest render
    rLoading,         \* loading captured by the callbacks of the latest render
    rAHasNextPage,    \* hasNextPage captured by the callbacks of the latest render
    rLastFailedPage,  \* lastFailedPage captured by the callbacks of the latest render
    effectPending,    \* the [loadAlbumsPage] effect has run and its initial load has not started
    loads,            \* the loadAlbumsPage calls made so far
    fetchFailures     \* rejections of the page-fetch collaborator so far

loaderVars == <<albums, currentPage, loading, aError, aHasNextPage, lastFailedPage,
                rCurrentPage, rLoading, rAHasNextPage, rLastFailedPage, effectPending, loads,
                fetchFailures>>

\* Bounds of the loader driver and of the page-fetch collaborator's data
MaxLoads == 2
MaxInFlight == 2
TotalItems == 3
PageSize == 2

\* useRetry options of the loader
AlbumsMaxRetries == 3
AlbumsInitialDelay == 1000
AlbumsMaxDelay == 10000

\* the collaborator rejects often enough to exhaust the retries of one load
MaxFetchFailures == AlbumsMaxRetries + 1

AlbumsRetryConfig ==
    [maxRetries |-> AlbumsMaxRetries, initialDelay |-> AlbumsInitialDelay,
     maxDelay |-> AlbumsMaxDelay, backoffNum |-> 3, backoffDen |-> 2, cond |-> "albums"]

\* What a page fetch can reject with
LoaderThrowables ==
    { t \in Throwables : /\ t.inst = 1
                          /\ t.type # "object"
                          /\ \/ Includes(t.msg, <<"network">>)
                             \/ Includes(t.msg, <<"not", "found">>)
                             \/ ~t.isError }

\* page-fetch collaborator getAlbumsPaginated(page, pageSize): idempotent, disjoint pages
TotalPages == (TotalItems + PageSize - 1) \div PageSize
PageItems(page) ==
    LET first == (page - 1) * PageSize + 1
        last == Min(page * PageSize, TotalItems)
    IN [i \in 1..(IF last >= first THEN last - first + 1 ELSE 0) |-> first + i - 1]
FetchPage(page) == [data |-> PageItems(page), hasNextPage |-> page < TotalPages]

\* reset ? response.data : [...prev, ...response.data]
AppendPage_NoReset(prev, data, reset) == prev \o data
AppendPage_Prepend(prev, data, reset) == IF reset THEN data ELSE data \o prev
AppendPage(prev, data, reset) == IF reset THEN data ELSE prev \o data

\* err instanceof Error ? err.message : 'Failed to load albums'
loaderErrorMessage_Null(err) == NoMsg
loaderErrorMessage(err) ==
    IF err.isError THEN Msg(err.msg) ELSE Msg(<<"Failed", "to", "load", "albums">>)

\* retry: if (lastFailedPage)
retryGuard_Always(failedPage) == TRUE
retryGuard(failedPage) == failedPage # 0

InFlight(l) == l.phase \in {"fetching", "delaying"}
AnyInFlight == \E i \in 1..Len(loads) : InFlight(loads[i])

\* the callbacks of the latest render see the latest state
Fresh ==
    /\ rCurrentPage = currentPage
    /\ rLoading = loading
    /\ rAHasNextPage = aHasNextPage
    /\ rLastFailedPage = lastFailedPage

Disturb(ls) == [i \in 1..Len(ls) |-> [ls[i] EXCEPT !.clean = FALSE]]

InitLoader ==
    /\ albums = <<>>
    /\ currentPage = 1
    /\ loading = FALSE
    /\ aError = NoMsg
    /\ aHasNextPage = TRUE
    /\ lastFailedPage = 0
    /\ rCurrentPage = 1
    /\ rLoading = FALSE
    /\ rAHasNextPage = TRUE
    /\ rLastFailedPage = 0
    /\ effectPending = TRUE
    /\ loads = <<>>
    /\ fetchFailures = 0

\* loadAlbumsPage(page, reset) up to the first invocation of the fetch inside
\* executeWithRetry: setLoading(true); setError(null); setLastFailedPage(null);
\* resetRetry(); execute's own reset.  albumsNow/pageNow/hasNextNow are the loader
\* state the call starts from.  The driver makes MaxLoads calls in any interleaving, and
\* one more when every call so far was made alone and has settled.
StartPageLoad(page, reset, kind, albumsNow, pageNow, hasNextNow) ==
    /\ \/ Len(loads) < MaxLoads
       \/ /\ Len(loads) = MaxLoads
          /\ ~AnyInFlight
          /\ \A i \in 1..Len(loads) : loads[i].alone
    /\ Cardinality({i \in 1..Len(loads) : InFlight(loads[i])}) < MaxInFlight
    /\ loading' = TRUE
    /\ aError' = NoMsg
    /\ lastFailedPage' = 0
    /\ retrying' = FALSE
    /\ retryCount' = 0
    /\ lastError' = NoError
    /\ loads' = Append(Disturb(loads),
                       [page |-> page, reset |-> reset, kind |-> kind,
                        phase |-> "fetching", attempt |-> 0,
                        alone |-> (~AnyInFlight /\ Fresh), clean |-> TRUE,
                        before |-> [albums |-> albumsNow, currentPage |-> pageNow,
                                    hasNextPage |-> hasNextNow]])

\* the effect on [loadAlbumsPage]: initializeData() reaches loadAlbumsPage(1, true)
InitialLoad ==
    /\ effectPending
    /\ effectPending' = FALSE
    /\ StartPageLoad(1, TRUE, "initial", albums, currentPage, aHasNextPage)
    /\ UNCHANGED <<albums, currentPage, aHasNextPage, fetchFailures,
                   rCurrentPage, rLoading, rAHasNextPage, rLastFailedPage>>

\* loadMore(): if (!hasNextPage || loading) return; loadAlbumsPage(currentPage + 1, false)
LoadMoreCall ==
    /\ rAHasNextPage /\ ~rLoading
    /\ StartPageLoad(rCurrentPage + 1, FALSE, "loadMore", albums, currentPage, aHasNextPage)
    /\ UNCHANGED <<albums, currentPage, aHasNextPage, effectPending, fetchFailures,
                   rCurrentPage, rLoading, rAHasNextPage, rLastFailedPage>>

\* refresh(): setCurrentPage(1); setAlbums([]); setHasNextPage(true); loadAlbumsPage(1, true)
RefreshCall ==
    /\ currentPage' = 1
    /\ albums' = <<>>
    /\ aHasNextPage' = TRUE
    /\ StartPageLoad(1, TRUE, "refresh", <<>>, 1, TRUE)
    /\ UNCHANGED <<effectPending, fetchFailures,
                   rCurrentPage, rLoading, rAHasNextPage, rLastFailedPage>>

\* retry(): if (lastFailedPage) loadAlbumsPage(lastFailedPage, lastFailedPage === 1)
RetryCall ==
    /\ retryGuard(rLastFailedPage)
    /\ StartPageLoad(rLastFailedPage, rLastFailedPage = 1, "retry",
                     albums, currentPage, aHasNextPage)
    /\ UNCHANGED <<albums, currentPage, aHasNextPage, effectPending, fetchFailures,
                   rCurrentPage, rLoading, rAHasNextPage, rLastFailedPage>>

\* the fetch of load i resolved: execute's success branch, then the rest of the try
\* block and the finally of loadAlbumsPage
FetchOk(i) ==
    /\ loads[i].phase = "fetching"
    /\ LET response == FetchPage(loads[i].page) IN
        /\ albums' = AppendPage(albums, response.data, loads[i].reset)
        /\ aHasNextPage' = response.hasNextPage
        /\ currentPage' = loads[i].page
    /\ retrying' = successState(lastError).retrying
    /\ retryCount' = successState(lastError).retryCount
    /\ lastError' = successState(lastError).lastError
    /\ loading' = FALSE
    /\ loads' = [j \in 1..Len(loads) |->
                    IF j = i THEN [loads[j] EXCEPT !.phase = "ok"]
                    ELSE [loads[j] EXCEPT !.clean = FALSE]]
    /\ UNCHANGED <<aError, lastFailedPage, effectPending, fetchFailures,
                   rCurrentPage, rLoading, rAHasNextPage, rLastFailedPage>>

\* the fetch of load i rejected: execute's catch branch; a terminal failure reaches
\* the catch and finally of loadAlbumsPage, otherwise the backoff delay starts
FetchFail(i) ==
    /\ loads[i].phase = "fetching"
    /\ fetchFailures < MaxFetchFailures
    /\ fetchFailures' = fetchFailures + 1
    /\ \E t \in LoaderThrowables :
        LET err == NormalizeError(t) IN
        /\ lastError' = err
        /\ IF ShouldStop(cfg, loads[i].attempt, err)
           THEN /\ retrying' = FALSE
                /\ aError' = loaderErrorMessage(err)
                /\ lastFailedPage' = loads[i].page
                /\ loading' = FALSE
                /\ loads' = [j \in 1..Len(loads) |->
                                IF j = i THEN [loads[j] EXCEPT !.phase = "failed"]
                                ELSE [loads[j] EXCEPT !.clean = FALSE]]
                /\ UNCHANGED retryCount
           ELSE /\ retrying' = TRUE
                /\ retryCount' = loads[i].attempt + 1
                /\ loads' = [loads EXCEPT ![i].phase = "delaying",
                                          ![i].attempt = loads[i].attempt + 1]
                /\ UNCHANGED <<aError, lastFailedPage, loading>>
    /\ UNCHANGED <<albums, currentPage, aHasNextPage, effectPending,
                   rCurrentPage, rLoading, rAHasNextPage, rLastFailedPage>>

\* the backoff delay of load i elapsed: the fetch is invoked again
FetchDelayElapsed(i) ==
    /\ loads[i].phase = "delaying"
    /\ loads' = [loads EXCEPT ![i].phase = "fetching"]
    /\ UNCHANGED <<albums, currentPage, loading, aError, aHasNextPage, lastFailedPage,
                   effectPending, rCurrentPage, rLoading, rAHasNextPage, rLastFailedPage,
                   fetchFailures, retrying, retryCount, lastError>>

\* a render of the component: the callbacks capture the latest state; executeWithRetry
\* (inline retryCondition in its deps) and so loadAlbumsPage are new, so the effect on
\* [loadAlbumsPage] runs again
LoaderRender ==
    /\ rCurrentPage' = currentPage
    /\ rLoading' = loading
    /\ rAHasNextPage' = aHasNextPage
    /\ rLastFailedPage' = lastFailedPage
    /\ effectPending' = TRUE
    /\ UNCHANGED <<albums, currentPage, loading, aError, aHasNextPage, lastFailedPage,
                   loads, fetchFailures, retrying, retryCount, lastError>>

(***************************************************************************)
(* ImagePreloadCache: ImagePreloader (the process-wide imagePreloader)      *)
(***************************************************************************)
VARIABLES
    cache,            \* keys of the Map cache
    loadingPromises,  \* Map url -> the load whose promise is registered (0: no entry)
    stats,            \* total, successful, failed, totalTime; hits/total is cacheHitRate
    imgLoads,         \* loadImage calls in start order
    pcalls,           \* preload calls in call order, with how each was answered
    batches,          \* preloadBatch calls
    saveData,         \* navigator.connection.saveData
    deviceMemory,     \* navigator.deviceMemory (0: not available)
    clears            \* clear() calls so far

preloadVars == <<cache, loadingPromises, stats, imgLoads, pcalls, batches,
                 saveData, deviceMemory, clears>>

\* Bounds of the preload driver
MaxPreloads == 2
MaxClears == 1
MaxConcurrentCfg == 2

\* the URLs of a submitted batch, in submission order; the third repeats the first
BatchUrls == <<"a.png", "b.png", "a.png">>
URLs == {BatchUrls[i] : i \in 1..Len(BatchUrls)}
Priorities == {"high", "medium", "low", "none"}
Durations == {1}
DeviceMemories == {0, 1, 4}

\* memory ceiling and device-memory floor of shouldPreload
CacheCeilingMB == 50
MinDeviceMemoryGB == 2
ImageEstimateKB == 100
KBPerMB == 1024

ZeroStats == [total |-> 0, successful |-> 0, failed |-> 0, totalTime |-> 0, hits |-> 0]
NoResult == [success |-> FALSE, error |-> "pending", duration |-> 0]

\* updateStats(result)
updateStats(st, success, duration, fromCache) ==
    [total |-> st.total + 1,
     successful |-> IF success THEN st.successful + 1 ELSE st.successful,
     failed |-> IF success THEN st.failed ELSE st.failed + 1,
     totalTime |-> st.totalTime + duration,
     hits |-> IF fromCache THEN st.hits + 1 ELSE st.hits]

\* getCacheInfo().memoryEstimateMB > 50, with memoryEstimateMB = size * 100 / 1024
memoryCeilingExceeded(size) == size * ImageEstimateKB > CacheCeilingMB * KBPerMB

\* shouldPreload(options); opts = [respectDataSaver, respectMemoryConstraints]
shouldPreload_IgnoreDataSaver(opts, size) ==
    /\ ~(opts.respectMemoryConstraints /\ memoryCeilingExceeded(size))
    /\ ~(opts.respectMemoryConstraints /\ deviceMemory # 0 /\ deviceMemory < MinDeviceMemoryGB)
shouldPreload(opts, size) ==
    /\ ~(opts.respectDataSaver /\ saveData)
    /\ ~(opts.respectMemoryConstraints /\ memoryCeilingExceeded(size))
    /\ ~(opts.respectMemoryConstraints /\ deviceMemory # 0 /\ deviceMemory < MinDeviceMemoryGB)

DefaultOptions == [respectDataSaver |-> TRUE, respectMemoryConstraints |-> TRUE]

\* the results the code builds
cachedResult == [success |-> TRUE, error |-> "none", duration |-> 0]
skippedResult == [success |-> FALSE, error |-> "Preloading skipped due to constraints",
                  duration |-> 0]
loadedResult(d) == [success |-> TRUE, error |-> "none", duration |-> d]
errorResult(d) == [success |-> FALSE, error |-> "Load error", duration |-> d]
timeoutResult(d) == [success |-> FALSE, error |-> "Timeout", duration |-> d]

\* how loadImage settles its promise on timeout / onload / onerror: always resolve(...)
loadImageSettles_RejectOnFailure(success) == IF success THEN "resolved" ELSE "rejected"
loadImageSettles(success) == "resolved"

\* priorityOrder[item.priority || 'medium']
priorityOrder(prio) ==
    CASE prio = "high" -> 3
      [] prio = "medium" -> 2
      [] prio = "none" -> 2
      [] prio = "low" -> 1

\* urls.sort((a, b) => priorityOrder[b] - priorityOrder[a]): stable, descending
RanksDescending == <<3, 2, 1>>
RECURSIVE sortByRanks(_, _)
sortByRanks(items, ranks) ==
    IF ranks = <<>> THEN <<>>
    ELSE SelectSeq(items, LAMBDA it : priorityOrder(it.prio) = Head(ranks))
            \o sortByRanks(items, Tail(ranks))
sortByPriority_Unsorted(items) == items
sortByPriority(items) == sortByRanks(items, RanksDescending)

PendingLoadsOf(ls, url) ==
    {k \in 1..Len(ls) : ls[k].url = url /\ ls[k].promise = "pending"}
MaxOf(S) == IF S = {} THEN 0 ELSE CHOOSE x \in S : \A y \in S : y <= x

\* the most recent load of url has settled with success = false
LastLoadFailed(ls, url) ==
    LET last == MaxOf({k \in 1..Len(ls) : ls[k].url = url})
    IN last # 0 /\ ls[last].promise # "pending" /\ ~ls[last].result.success

\* loads awaited by batch b that have not settled
OpenLoadsOf(st, b) ==
    {k \in 1..Len(st.loads) :
        /\ st.loads[k].promise = "pending"
        /\ \E c \in 1..Len(st.calls) : st.calls[c].batch = b /\ st.calls[c].load = k}

\* the order of the checks of preload: cache, loadingPromises, shouldPreload
preloadBranch_AdmissionFirst(cached, loadingNow, admitted) ==
    IF ~admitted THEN "skipped"
    ELSE IF cached THEN "hit"
    ELSE IF loadingNow THEN "joined"
    ELSE "started"
preloadBranch(cached, loadingNow, admitted) ==
    IF cached THEN "hit"
    ELSE IF loadingNow THEN "joined"
    ELSE IF ~admitted THEN "skipped"
    ELSE "started"

\* preload(url, options) up to its first await, on st = [cache, lp, loads, stats, calls]
preload(st, item, opts, b) ==
    LET call == [url |-> item.url, batch |-> b, prio |-> item.prio, subIdx |-> item.subIdx,
                 prior |-> MaxOf(PendingLoadsOf(st.loads, item.url)),
                 open |-> Cardinality(OpenLoadsOf(st, b)),
                 afterFailure |-> LastLoadFailed(st.loads, item.url),
                 admitted |-> shouldPreload(opts, Cardinality(st.cache))]
        how == preloadBranch(item.url \in st.cache, st.lp[item.url] # 0,
                             shouldPreload(opts, Cardinality(st.cache)))
    IN
    IF how = "hit"
    THEN [st EXCEPT !.stats = updateStats(@, TRUE, 0, TRUE),
                    !.calls = Append(@, call @@ [how |-> "hit", load |-> 0])]
    ELSE IF how = "joined"
    THEN [st EXCEPT !.calls = Append(@, call @@ [how |-> "joined", load |-> st.lp[item.url]])]
    ELSE IF how = "skipped"
    THEN [st EXCEPT !.calls = Append(@, call @@ [how |-> "skipped", load |-> 0])]
    ELSE [st EXCEPT !.loads = Append(@, [url |-> item.url, img |-> "loading",
                                         timer |-> "armed", promise |-> "pending",
                                         result |-> NoResult, epoch |-> clears]),
                    !.lp = [@ EXCEPT ![item.url] = Len(st.loads) + 1],
                    !.calls = Append(@, call @@ [how |-> "started",
                                                 load |-> Len(st.loads) + 1])]

\* chunk.map(item => this.preload(item.url, ...)): the items of one chunk in order
RECURSIVE preloadChunk(_, _, _, _)
preloadChunk(st, items, opts, b) ==
    IF items = <<>> THEN st
    ELSE preloadChunk(preload(st, Head(items), opts, b), Tail(items), opts, b)

Now == [cache |-> cache, lp |-> loadingPromises, loads |-> imgLoads,
        stats |-> stats, calls |-> pcalls]

Commit(st) ==
    /\ cache' = st.cache
    /\ loadingPromises' = st.lp
    /\ imgLoads' = st.loads
    /\ stats' = st.stats
    /\ pcalls' = st.calls

\* the result a preload call resolves to
ResultOf(c) ==
    CASE c.how = "hit" -> cachedResult
      [] c.how = "skipped" -> skippedResult
      [] OTHER -> imgLoads[c.load].result
PromiseOf(c) ==
    IF c.how \in {"hit", "skipped"} THEN "resolved" ELSE imgLoads[c.load].promise

InitPreload ==
    /\ cache = {}
    /\ loadingPromises = [u \in URLs |-> 0]
    /\ stats = ZeroStats
    /\ imgLoads = <<>>
    /\ pcalls = <<>>
    /\ batches = <<>>
    /\ saveData = FALSE
    /\ deviceMemory \in DeviceMemories
    /\ clears = 0

\* a caller invokes preload(url)
PreloadCall ==
    /\ Cardinality({c \in 1..Len(pcalls) : pcalls[c].batch = 0}) < MaxPreloads
    /\ \E u \in URLs :
        Commit(preload(Now, [url |-> u, prio |-> "none", subIdx |-> 0], DefaultOptions, 0))
    /\ UNCHANGED <<batches, saveData, deviceMemory, clears>>

\* the items a caller can submit: BatchUrls in order, each with a priority or none
BatchInputs ==
    UNION { { [i \in 1..n |-> [url |-> BatchUrls[i], prio |-> f[i], subIdx |-> i]] :
                f \in [1..n -> Priorities] } : n \in 1..Len(BatchUrls) }

\* preloadBatch(urls, {maxConcurrent}): sort, then the first pass of the chunk loop.
\* One preloadBatch call is followed per behaviour.
PreloadBatchCall ==
    /\ batches = <<>>
    /\ \E input \in BatchInputs, mc \in 1..MaxConcurrentCfg :
        LET sorted == sortByPriority(input)
            b == Len(batches) + 1
            st == preloadChunk(Now, SubSeq(sorted, 1, Min(mc, Len(sorted))), DefaultOptions, b)
        IN
        /\ Commit(st)
        /\ batches' = Append(batches, [items |-> sorted, maxConcurrent |-> mc,
                                       next |-> Min(mc, Len(sorted)) + 1,
                                       outcome |-> "pending"])
    /\ UNCHANGED <<saveData, deviceMemory, clears>>

\* await Promise.all(chunk): every promise of the chunk has settled
chunkSettled_Immediately(b) == TRUE
chunkSettled(b) == OpenLoadsOf(Now, b) = {}

\* await Promise.all(chunk) settled: it throws if a chunk promise rejected; otherwise the
\* next pass of the chunk loop, or return results
BatchAdvance(b) ==
    /\ batches[b].outcome = "pending"
    /\ chunkSettled(b)
    /\ LET bt == batches[b]
           last == Min(bt.next + bt.maxConcurrent - 1, Len(bt.items))
       IN
       IF \E c \in 1..Len(pcalls) : pcalls[c].batch = b /\ PromiseOf(pcalls[c]) = "rejected"
       THEN /\ batches' = [batches EXCEPT ![b].outcome = "rejected"]
            /\ UNCHANGED <<cache, loadingPromises, stats, imgLoads, pcalls>>
       ELSE IF bt.next > Len(bt.items)
       THEN /\ batches' = [batches EXCEPT ![b].outcome = "resolved"]
            /\ UNCHANGED <<cache, loadingPromises, stats, imgLoads, pcalls>>
       ELSE /\ Commit(preloadChunk(Now, SubSeq(bt.items, bt.next, last), DefaultOptions, b))
            /\ batches' = [batches EXCEPT ![b].next = last + 1]
    /\ UNCHANGED <<saveData, deviceMemory, clears>>

\* the continuation of preload after `await loadPromise`: cache a success; finally
\* loadingPromises.delete(url)
afterLoad(k, success) ==
    /\ cache' = IF success THEN cache \cup {imgLoads[k].url} ELSE cache
    /\ loadingPromises' = [loadingPromises EXCEPT ![imgLoads[k].url] = 0]

\* img.onload of load k
ImgLoaded(k) ==
    /\ imgLoads[k].img = "loading"
    /\ \E d \in Durations :
        /\ stats' = updateStats(stats, TRUE, d, FALSE)
        /\ IF imgLoads[k].promise = "pending"
           THEN /\ imgLoads' = [imgLoads EXCEPT ![k].img = "loaded", ![k].timer = "cleared",
                                   ![k].promise = loadImageSettles(TRUE),
                                   ![k].result = loadedResult(d)]
                /\ afterLoad(k, TRUE)
           ELSE /\ imgLoads' = [imgLoads EXCEPT ![k].img = "loaded"]
                /\ UNCHANGED <<cache, loadingPromises>>
    /\ UNCHANGED <<pcalls, batches, saveData, deviceMemory, clears>>

\* img.onerror of load k
ImgErrored(k) ==
    /\ imgLoads[k].img = "loading"
    /\ \E d \in Durations :
        /\ stats' = updateStats(stats, FALSE, d, FALSE)
        /\ IF imgLoads[k].promise = "pending"
           THEN /\ imgLoads' = [imgLoads EXCEPT ![k].img = "errored", ![k].timer = "cleared",
                                   ![k].promise = loadImageSettles(FALSE),
                                   ![k].result = errorResult(d)]
                /\ afterLoad(k, FALSE)
           ELSE /\ imgLoads' = [imgLoads EXCEPT ![k].img = "errored"]
                /\ UNCHANGED <<cache, loadingPromises>>
    /\ UNCHANGED <<pcalls, batches, saveData, deviceMemory, clears>>

\* the timeout callback only updates the statistics and resolves: the image is untouched
imgAfterTimeout_Aborted(img) == "aborted"
imgAfterTimeout(img) == img

\* the setTimeout of load k fires; the image keeps loading
TimeoutFired(k) ==
    /\ imgLoads[k].timer = "armed"
    /\ \E d \in Durations :
        /\ stats' = updateStats(stats, FALSE, d, FALSE)
        /\ imgLoads' = [imgLoads EXCEPT ![k].timer = "fired",
                           ![k].img = imgAfterTimeout(@),
                           ![k].promise = loadImageSettles(FALSE),
                           ![k].result = timeoutResult(d)]
    /\ afterLoad(k, FALSE)
    /\ UNCHANGED <<pcalls, batches, saveData, deviceMemory, clears>>

\* clear()
Clear ==
    /\ clears < MaxClears
    /\ clears' = clears + 1
    /\ cache' = {}
    /\ loadingPromises' = [u \in URLs |-> 0]
    /\ stats' = ZeroStats
    /\ UNCHANGED <<imgLoads, pcalls, batches, saveData, deviceMemory>>

\* the environment changes the data-saver signal
SetSaveData ==
    /\ saveData' = ~saveData
    /\ UNCHANGED <<cache, loadingPromises, stats, imgLoads, pcalls, batches,
                   deviceMemory, clears>>

(***************************************************************************)
(* ImagePreloader.smartPreload: the order in which a smart batch is handed *)
(* to preload.  Importance is kept in tenths.                              *)
(***************************************************************************)
VARIABLES
    smartImages,   \* the images argument: [url, importance, userInteraction]
    smartStarted,  \* the items in the order preloadBatch calls preload for them
    smartCalled    \* smartPreload was called

smartVars == <<smartImages, smartStarted, smartCalled>>

\* Bound of the smart-preload driver
MaxImages == 3

\* importance > 0.7 is high, importance > 0.3 is medium (in tenths)
HighImportance == 7
MediumImportance == 3
ImportanceLevels == {MediumImportance, MediumImportance + 1, HighImportance, HighImportance + 1}

\* the comparator of smartPreload returns a negative number: a sorts before b
smartBefore_ImportanceOnly(a, b) == a.importance > b.importance
smartBefore(a, b) ==
    \/ a.userInteraction /\ ~b.userInteraction
    \/ a.userInteraction = b.userInteraction /\ a.importance > b.importance

\* Array.prototype.sort with that comparator: stable
smartInsert(sorted, x) ==
    LET later == {i \in 1..Len(sorted) : smartBefore(x, sorted[i])}
        pos == IF later = {} THEN Len(sorted) + 1
               ELSE CHOOSE i \in later : \A j \in later : i <= j
    IN SubSeq(sorted, 1, pos - 1) \o <<x>> \o SubSeq(sorted, pos, Len(sorted))
RECURSIVE smartSort(_)
smartSort(items) ==
    IF items = <<>> THEN <<>>
    ELSE smartInsert(smartSort(SubSeq(items, 1, Len(items) - 1)), items[Len(items)])

\* item.userInteraction ? 'high' : importance > 0.7 ? 'high' : importance > 0.3 ? 'medium' : 'low'
smartPriority(item) ==
    IF item.userInteraction THEN "high"
    ELSE IF item.importance > HighImportance THEN "high"
    ELSE IF item.importance > MediumImportance THEN "medium"
    ELSE "low"

\* smartPreload(images): sort, map to {url, priority}, preloadBatch's own priority sort
smartPreload(images) ==
    LET smartSorted == smartSort(images)
    IN sortByPriority([i \in 1..Len(smartSorted) |->
                          [url |-> smartSorted[i].url, prio |-> smartPriority(smartSorted[i]),
                           subIdx |-> i]])

SmartInputs ==
    UNION { [1..n -> [importance : ImportanceLevels, userInteraction : BOOLEAN]] :
                n \in 1..MaxImages }

InitSmart ==
    /\ \E f \in SmartInputs :
        smartImages = [i \in 1..Len(f) |->
                          [url |-> i, importance |-> f[i].importance,
                           userInteraction |-> f[i].userInteraction]]
    /\ smartStarted = <<>>
    /\ smartCalled = FALSE

\* a caller invokes smartPreload(images)
SmartPreloadCall ==
    /\ ~smartCalled
    /\ smartCalled' = TRUE
    /\ smartStarted' = smartPreload(smartImages)
    /\ UNCHANGED smartImages

(***************************************************************************)
(* ViewportPreloadOrchestrator: usePhotoImagePreloading                    *)
(* Photos are named by their index 0..photoCount-1; importance is kept as  *)
(* a numerator over preloadAhead.                                          *)
(***************************************************************************)
VARIABLES
    photoCount,    \* photos.length
    preloadAhead,  \* mergedOptions.preloadAhead
    fullEnabled,   \* mergedOptions.enableFullImagePreloading
    photoFocus,    \* the index argument of the preloadAroundIndex call
    photoWindow,   \* the items handed to smartPreload: [index, importance, userInteraction]
    photoFull,     \* number of full-image URLs handed to preloadBatch
    photoState,    \* useState: isPreloading, preloadingCount, preloadedCount, failedCount
    photoPhase     \* position of the pass: idle / returned / thumbs / full / done

viewportVars == <<photoCount, preloadAhead, fullEnabled, photoFocus, photoWindow,
                  photoFull, photoState, photoPhase>>

\* Bounds of the viewport driver
MaxPhotos == 4
MaxAhead == 3

\* photosToPreload.slice(0, Math.min(3, photosToPreload.length))
FullImageLimit == 3

Max(a, b) == IF a >= b THEN a ELSE b
Abs(a) == IF a >= 0 THEN a ELSE 0 - a

IdlePreloadingState ==
    [isPreloading |-> FALSE, preloadingCount |-> 0, preloadedCount |-> 0, failedCount |-> 0]

\* Math.max(0, index - Math.floor(preloadAhead / 2))
windowStart(index, ahead) == Max(0, index - (ahead \div 2))
\* Math.min(photos.length - 1, startIndex + preloadAhead)
windowEnd(count, start, ahead) == Min(count - 1, start + ahead)
\* photos.slice(startIndex, endIndex): the indexes startIndex .. endIndex - 1
slice(start, end) == [i \in 1..Max(0, end - start) |-> start + i - 1]

\* Math.max(0, 1 - Math.abs(idx - (index - startIndex)) / preloadAhead), times preloadAhead
thumbImportance(idx, index, start, ahead) == Max(0, ahead - Abs(idx - (index - start)))

\* Math.abs((startIndex + thumbnailUrls.indexOf(item)) - index) <= 1
nearFocus_Within2(distance) == distance <= 2
nearFocus(distance) == distance <= 1

thumbnailWindow(count, index, ahead) ==
    LET start == windowStart(index, ahead)
        photosToPreload == slice(start, windowEnd(count, start, ahead))
    IN [i \in 1..Len(photosToPreload) |->
           [index |-> photosToPreload[i],
            importance |-> thumbImportance(i - 1, index, start, ahead),
            userInteraction |-> nearFocus(Abs((start + (i - 1)) - index))]]

InitViewport ==
    /\ photoCount \in 0..MaxPhotos
    /\ preloadAhead \in 1..MaxAhead
    /\ fullEnabled \in BOOLEAN
    /\ photoFocus = 0
    /\ photoWindow = <<>>
    /\ photoFull = 0
    /\ photoState = IdlePreloadingState
    /\ photoPhase = "idle"

\* preloadAroundIndex(index) up to `await preloader.smartPreload(...)`
PreloadAroundIndex ==
    /\ photoPhase = "idle"
    /\ \E index \in 0..MaxPhotos :
        /\ photoFocus' = index
        /\ IF photoCount = 0
           THEN /\ photoPhase' = "returned"
                /\ UNCHANGED <<photoWindow, photoState>>
           ELSE /\ photoWindow' = thumbnailWindow(photoCount, index, preloadAhead)
                /\ photoState' = [photoState EXCEPT
                                    !.isPreloading = TRUE,
                                    !.preloadingCount = @ + Len(photoWindow')]
                /\ photoPhase' = "thumbs"
    /\ UNCHANGED <<photoCount, preloadAhead, fullEnabled, photoFull>>

\* smartPreload resolved with s successful results; then the full-image block up to
\* `await preloader.preloadBatch(...)`, or the final setState
ThumbnailsSettled ==
    /\ photoPhase = "thumbs"
    /\ \E s \in 0..Len(photoWindow) :
        LET counted == [photoState EXCEPT
                           !.preloadedCount = @ + s,
                           !.failedCount = @ + (Len(photoWindow) - s),
                           !.preloadingCount = @ - Len(photoWindow)]
            fullN == Min(FullImageLimit, Len(photoWindow))
        IN
        IF fullEnabled
        THEN /\ photoFull' = fullN
             /\ photoState' = [counted EXCEPT !.preloadingCount = @ + fullN]
             /\ photoPhase' = "full"
        ELSE /\ photoState' = [counted EXCEPT !.isPreloading = FALSE]
             /\ photoPhase' = "done"
             /\ UNCHANGED photoFull
    /\ UNCHANGED <<photoCount, preloadAhead, fullEnabled, photoFocus, photoWindow>>

\* preloadBatch of the full images resolved with s successful results
FullImagesSettled ==
    /\ photoPhase = "full"
    /\ \E s \in 0..photoFull :
        photoState' = [photoState EXCEPT
                          !.preloadedCount = @ + s,
                          !.failedCount = @ + (photoFull - s),
                          !.preloadingCount = @ - photoFull,
                          !.isPreloading = FALSE]
    /\ photoPhase' = "done"
    /\ UNCHANGED <<photoCount, preloadAhead, fullEnabled, photoFocus, photoWindow, photoFull>>

(***************************************************************************)
(* ViewportPreloadOrchestrator: useAlbumImagePreloading                    *)
(***************************************************************************)
VARIABLES
    albumThumbs,   \* per album: album.thumbnailPhotoId is set
    albumAhead,    \* mergedOptions.preloadAhead
    albumUrls,     \* thumbnailUrls.length of the pass
    albumState,    \* useState: isPreloading, preloadingCount, preloadedCount, failedCount
    albumPhase     \* position of the pass: idle / returned / loading / done

albumVars == <<albumThumbs, albumAhead, albumUrls, albumState, albumPhase>>

\* Bound of the album driver
MaxAlbums == 3

AlbumLists == UNION { [1..n -> BOOLEAN] : n \in 0..MaxAlbums }

InitAlbums ==
    /\ albumThumbs \in AlbumLists
    /\ albumAhead \in 1..MaxAhead
    /\ albumUrls = 0
    /\ albumState = IdlePreloadingState
    /\ albumPhase = "idle"

\* albums.filter(album => album.thumbnailPhotoId).slice(0, preloadAhead).length
thumbnailUrlCount(thumbs, ahead) ==
    Min(Cardinality({i \in 1..Len(thumbs) : thumbs[i]}), ahead)

\* preloadAlbumThumbnails() up to `await preloader.smartPreload(...)`
PreloadAlbumThumbnails ==
    /\ albumPhase = "idle"
    /\ IF Len(albumThumbs) = 0
       THEN /\ albumPhase' = "returned"
            /\ UNCHANGED <<albumUrls, albumState>>
       ELSE LET n == thumbnailUrlCount(albumThumbs, albumAhead) IN
            /\ albumUrls' = n
            /\ IF n = 0
               THEN /\ albumState' = [albumState EXCEPT !.isPreloading = TRUE,
                                                        !.preloadingCount = 0]
                    /\ albumPhase' = "returned"
               ELSE /\ albumState' = [albumState EXCEPT !.isPreloading = TRUE,
                                                        !.preloadingCount = n]
                    /\ albumPhase' = "loading"
    /\ UNCHANGED <<albumThumbs, albumAhead>>

\* smartPreload resolved with s successful results
AlbumThumbnailsSettled ==
    /\ albumPhase = "loading"
    /\ \E s \in 0..albumUrls :
        albumState' = [albumState EXCEPT
                          !.preloadedCount = @ + s,
                          !.failedCount = @ + (albumUrls - s),
                          !.isPreloading = FALSE,
                          !.preloadingCount = 0]
    /\ albumPhase' = "done"
    /\ UNCHANGED <<albumThumbs, albumAhead, albumUrls>>

(***************************************************************************)
(* ImagePreloadCache near its memory ceiling: the cache is represented by  *)
(* its size, every preload call is for a URL that is neither cached nor    *)
(* loading.                                                                *)
(***************************************************************************)
VARIABLES
    ceilCached,   \* this.cache.size
    ceilPending,  \* loads started and not settled
    ceilStarted,  \* loads started by the driver
    ceilRefused   \* preload calls answered 'Preloading skipped due to constraints'

ceilingVars == <<ceilCached, ceilPending, ceilStarted, ceilRefused>>
extraVars == <<smartVars, viewportVars, albumVars, ceilingVars>>

\* Bound of the ceiling driver
MaxCeilingCalls == 5

\* the largest cache size at which memoryEstimateMB > 50 is false
LargestAdmittedSize == (CacheCeilingMB * KBPerMB) \div ImageEstimateKB

\* a cache that successful preloads have filled up to just below the ceiling
InitCeiling ==
    /\ ceilCached \in (LargestAdmittedSize - MaxCeilingCalls)..LargestAdmittedSize
    /\ ceilPending = 0
    /\ ceilStarted = 0
    /\ ceilRefused = 0

\* preload(url) of a URL that is neither cached nor loading
CeilingPreload ==
    /\ ceilStarted + ceilRefused < MaxCeilingCalls
    /\ IF shouldPreload(DefaultOptions, ceilCached)
       THEN /\ ceilStarted' = ceilStarted + 1
            /\ ceilPending' = ceilPending + 1
            /\ UNCHANGED ceilRefused
       ELSE /\ ceilRefused' = ceilRefused + 1
            /\ UNCHANGED <<ceilStarted, ceilPending>>
    /\ UNCHANGED ceilCached

\* a load settled with success: this.cache.set(url, img)
CeilingLoaded ==
    /\ ceilPending > 0
    /\ ceilPending' = ceilPending - 1
    /\ ceilCached' = ceilCached + 1
    /\ UNCHANGED <<ceilStarted, ceilRefused>>

\* a load settled with failure
CeilingFailed ==
    /\ ceilPending > 0
    /\ ceilPending' = ceilPending - 1
    /\ UNCHANGED <<ceilCached, ceilStarted, ceilRefused>>

(***************************************************************************)
(* Specifications                                                          *)
(***************************************************************************)
vars == <<retryVars, scrollVars, loaderVars, preloadVars, extraVars>>

retryCallVars == <<cfg, rpc, attempt, invocations, nThrown, lastThrown, allAccepted,
                   waited, lastDelay, outcome, execs>>

\* a component that takes no step in a specification stays as constructed
RetryParked == cfg = AlbumsRetryConfig /\ RetryIdle
ScrollParked == InitScroll /\ enabled = TRUE /\ triggerEl = 0
LoaderParked == InitLoader
PreloadParked == InitPreload /\ deviceMemory = 0
SmartParked == smartImages = <<>> /\ smartStarted = <<>> /\ smartCalled = FALSE
ViewportParked == InitViewport /\ photoCount = 0 /\ preloadAhead = 1 /\ fullEnabled = FALSE
AlbumsParked == InitAlbums /\ albumThumbs = <<>> /\ albumAhead = 1
CeilingParked == ceilCached = 0 /\ ceilPending = 0 /\ ceilStarted = 0 /\ ceilRefused = 0
ExtraParked == SmartParked /\ ViewportParked /\ AlbumsParked /\ CeilingParked

SpecRetryInit == InitRetry /\ ScrollParked /\ LoaderParked /\ PreloadParked /\ ExtraParked
SpecRetryNext ==
    \/ Execute /\ UNCHANGED <<scrollVars, loaderVars, preloadVars, extraVars>>
    \/ FnResolve /\ UNCHANGED <<scrollVars, loaderVars, preloadVars, extraVars>>
    \/ FnReject /\ UNCHANGED <<scrollVars, loaderVars, preloadVars, extraVars>>
    \/ DelayElapsed /\ UNCHANGED <<scrollVars, loaderVars, preloadVars, extraVars>>
    \/ Reset /\ UNCHANGED <<scrollVars, loaderVars, preloadVars, extraVars>>
SpecRetry == SpecRetryInit /\ [][SpecRetryNext]_vars

\* SpecRetry for an operation whose every invocation settles and whose every backoff
\* timer fires
SpecRetryFair ==
    /\ SpecRetry
    /\ WF_vars((FnResolve \/ FnReject) /\ UNCHANGED <<scrollVars, loaderVars, preloadVars, extraVars>>)
    /\ WF_vars(DelayElapsed /\ UNCHANGED <<scrollVars, loaderVars, preloadVars, extraVars>>)

SpecScrollInit == InitScroll /\ RetryParked /\ LoaderParked /\ PreloadParked /\ ExtraParked
SpecScrollNext ==
    \/ ManualLoadMore /\ UNCHANGED <<retryVars, loaderVars, preloadVars, extraVars>>
    \/ Intersect /\ UNCHANGED <<retryVars, loaderVars, preloadVars, extraVars>>
    \/ CallbackResolve /\ UNCHANGED <<retryVars, loaderVars, preloadVars, extraVars>>
    \/ CallbackReject /\ UNCHANGED <<retryVars, loaderVars, preloadVars, extraVars>>
    \/ SetHasNextPage /\ UNCHANGED <<retryVars, loaderVars, preloadVars, extraVars>>
    \/ AttachSentinel /\ UNCHANGED <<retryVars, loaderVars, preloadVars, extraVars>>
    \/ Render /\ UNCHANGED <<retryVars, loaderVars, preloadVars, extraVars>>
    \/ Unmount /\ UNCHANGED <<retryVars, loaderVars, preloadVars, extraVars>>
SpecScroll == SpecScrollInit /\ [][SpecScrollNext]_vars

SpecLoaderInit == InitLoader /\ RetryParked /\ ScrollParked /\ PreloadParked /\ ExtraParked
SpecLoaderNext ==
    \/ InitialLoad /\ UNCHANGED <<retryCallVars, scrollVars, preloadVars, extraVars>>
    \/ LoadMoreCall /\ UNCHANGED <<retryCallVars, scrollVars, preloadVars, extraVars>>
    \/ RefreshCall /\ UNCHANGED <<retryCallVars, scrollVars, preloadVars, extraVars>>
    \/ RetryCall /\ UNCHANGED <<retryCallVars, scrollVars, preloadVars, extraVars>>
    \/ \E i \in 1..Len(loads) : FetchOk(i) /\ UNCHANGED <<retryCallVars, scrollVars, preloadVars, extraVars>>
    \/ \E i \in 1..Len(loads) : FetchFail(i) /\ UNCHANGED <<retryCallVars, scrollVars, preloadVars, extraVars>>
    \/ \E i \in 1..Len(loads) : FetchDelayElapsed(i) /\ UNCHANGED <<retryCallVars, scrollVars, preloadVars, extraVars>>
    \/ LoaderRender /\ UNCHANGED <<retryCallVars, scrollVars, preloadVars, extraVars>>
SpecLoader == SpecLoaderInit /\ [][SpecLoaderNext]_vars

SpecPreloadInit == InitPreload /\ RetryParked /\ ScrollParked /\ LoaderParked /\ ExtraParked
SpecPreloadNext ==
    \/ PreloadCall /\ UNCHANGED <<retryVars, scrollVars, loaderVars, extraVars>>
    \/ \E k \in 1..Len(imgLoads) : ImgLoaded(k) /\ UNCHANGED <<retryVars, scrollVars, loaderVars, extraVars>>
    \/ \E k \in 1..Len(imgLoads) : ImgErrored(k) /\ UNCHANGED <<retryVars, scrollVars, loaderVars, extraVars>>
    \/ \E k \in 1..Len(imgLoads) : TimeoutFired(k) /\ UNCHANGED <<retryVars, scrollVars, loaderVars, extraVars>>
    \/ Clear /\ UNCHANGED <<retryVars, scrollVars, loaderVars, extraVars>>
    \/ SetSaveData /\ UNCHANGED <<retryVars, scrollVars, loaderVars, extraVars>>
SpecPreload == SpecPreloadInit /\ [][SpecPreloadNext]_vars

SpecBatchInit == InitPreload /\ RetryParked /\ ScrollParked /\ LoaderParked /\ ExtraParked
SpecBatchNext ==
    \/ PreloadBatchCall /\ UNCHANGED <<retryVars, scrollVars, loaderVars, extraVars>>
    \/ \E b \in 1..Len(batches) : BatchAdvance(b) /\ UNCHANGED <<retryVars, scrollVars, loaderVars, extraVars>>
    \/ \E k \in 1..Len(imgLoads) : ImgLoaded(k) /\ UNCHANGED <<retryVars, scrollVars, loaderVars, extraVars>>
    \/ \E k \in 1..Len(imgLoads) : ImgErrored(k) /\ UNCHANGED <<retryVars, scrollVars, loaderVars, extraVars>>
    \/ \E k \in 1..Len(imgLoads) : TimeoutFired(k) /\ UNCHANGED <<retryVars, scrollVars, loaderVars, extraVars>>
    \/ SetSaveData /\ UNCHANGED <<retryVars, scrollVars, loaderVars, extraVars>>
SpecBatch == SpecBatchInit /\ [][SpecBatchNext]_vars

SpecSmartInit ==
    InitSmart /\ RetryParked /\ ScrollParked /\ LoaderParked /\ PreloadParked
        /\ ViewportParked /\ AlbumsParked /\ CeilingParked
SpecSmartNext ==
    \/ SmartPreloadCall /\ UNCHANGED <<retryVars, scrollVars, loaderVars, preloadVars,
                                        viewportVars, albumVars, ceilingVars>>
SpecSmart == SpecSmartInit /\ [][SpecSmartNext]_vars

SpecViewportInit ==
    InitViewport /\ RetryParked /\ ScrollParked /\ LoaderParked /\ PreloadParked
        /\ SmartParked /\ AlbumsParked /\ CeilingParked
SpecViewportNext ==
    \/ PreloadAroundIndex /\ UNCHANGED <<retryVars, scrollVars, loaderVars, preloadVars,
                                          smartVars, albumVars, ceilingVars>>
    \/ ThumbnailsSettled /\ UNCHANGED <<retryVars, scrollVars, loaderVars, preloadVars,
                                         smartVars, albumVars, ceilingVars>>
    \/ FullImagesSettled /\ UNCHANGED <<retryVars, scrollVars, loaderVars, preloadVars,
                                         smartVars, albumVars, ceilingVars>>
SpecViewport == SpecViewportInit /\ [][SpecViewportNext]_vars

SpecAlbumsInit ==
    InitAlbums /\ RetryParked /\ ScrollParked /\ LoaderParked /\ PreloadParked
        /\ SmartParked /\ ViewportParked /\ CeilingParked
SpecAlbumsNext ==
    \/ PreloadAlbumThumbnails /\ UNCHANGED <<retryVars, scrollVars, loaderVars, preloadVars,
                                              smartVars, viewportVars, ceilingVars>>
    \/ AlbumThumbnailsSettled /\ UNCHANGED <<retryVars, scrollVars, loaderVars, preloadVars,
                                              smartVars, viewportVars, ceilingVars>>
SpecAlbums == SpecAlbumsInit /\ [][SpecAlbumsNext]_vars

SpecCeilingInit ==
    InitCeiling /\ RetryParked /\ ScrollParked /\ LoaderParked /\ PreloadParked
        /\ SmartParked /\ ViewportParked /\ AlbumsParked
SpecCeilingNext ==
    \/ CeilingPreload /\ UNCHANGED <<retryVars, scrollVars, loaderVars, preloadVars,
                                      smartVars, viewportVars, albumVars>>
    \/ CeilingLoaded /\ UNCHANGED <<retryVars, scrollVars, loaderVars, preloadVars,
                                     smartVars, viewportVars, albumVars>>
    \/ CeilingFailed /\ UNCHANGED <<retryVars, scrollVars, loaderVars, preloadVars,
                                     smartVars, viewportVars, albumVars>>
SpecCeiling == SpecCeilingInit /\ [][SpecCeilingNext]_vars

(***************************************************************************)
(* Properties of the RetryExecutor (SpecRetry)                             *)
(***************************************************************************)

\* C1: with maxRetries = N, an operation whose every failure is an Error accepted
\* by retryCondition is invoked exactly N + 1 times before execute rejects; execute
\* rejects with the very error object the last invocation threw, and retrying is
\* false afterwards.
C1_RetryCeiling ==
    /\ (allAccepted /\ rpc \in {"calling", "delaying", "rejected"}) =>
          invocations <= cfg.maxRetries + 1
    /\ (allAccepted /\ rpc = "rejected") =>
          /\ invocations = cfg.maxRetries + 1
          /\ outcome = [kind |-> "rejected", err |-> lastThrown]
          /\ retrying = FALSE

C1_Witness ==
    /\ rpc = "rejected" /\ allAccepted
    /\ cfg.maxRetries = MaxRetriesCfg
    /\ invocations = MaxRetriesCfg + 1
    /\ outcome.err = lastThrown

\* C2: a failure with an Error that retryCondition refuses ends the call at once:
\* execute rejects with that same error, no further invocation and no backoff
\* delay follows it; when it is the first failure the operation was invoked exactly
\* once and no delay was waited, whatever maxRetries is.
C2_NonRetryableOnce ==
    (nThrown >= 1 /\ lastThrown.isError /\ ~retryCondition(cfg.cond, lastThrown)) =>
        /\ rpc = "rejected"
        /\ outcome = [kind |-> "rejected", err |-> lastThrown]
        /\ invocations = nThrown
        /\ waited = nThrown - 1
        /\ (nThrown = 1 => invocations = 1 /\ waited = 0)

C2_Witness ==
    /\ rpc = "rejected"
    /\ nThrown = 1 /\ invocations = 1 /\ waited = 0
    /\ lastThrown.isError /\ ~retryCondition(cfg.cond, lastThrown)
    /\ cfg.maxRetries = MaxRetriesCfg

\* C3: when the operation fails k times and then succeeds, execute resolves after
\* exactly k + 1 invocations with k <= maxRetries, and afterwards retrying = false,
\* retryCount = 0 and lastError = null.
C3_SuccessAfterFailures ==
    rpc = "resolved" =>
        /\ outcome.kind = "resolved"
        /\ invocations = nThrown + 1
        /\ nThrown <= cfg.maxRetries
        /\ waited = nThrown
        /\ retrying = FALSE
        /\ retryCount = 0
        /\ lastError = NoError

C3_Witness ==
    /\ rpc = "resolved"
    /\ cfg.maxRetries = 2
    /\ nThrown = 2 /\ invocations = 3
    /\ outcome.val = "success"

(***************************************************************************)
(* Properties of the InfiniteScrollController (SpecScroll)                 *)
(***************************************************************************)

\* C4: at most one fetch callback is in flight at any time: visibility events and
\* manual loadMore() calls arriving while a fetch is pending invoke nothing.
C4_SingleInFlight == inflight <= 1

\* C5: while hasNextPage is false, neither an intersecting visibility event nor a
\* manual loadMore() invokes the fetch callback, and those events leave isLoading
\* and error unchanged.
C5_NoFetchWithoutNextPage ==
    [][(~hasNextPage /\ (ManualLoadMore \/ Intersect)) =>
          (calls' = calls /\ isLoading' = isLoading /\ sError' = sError)]_vars

(***************************************************************************)
(* Properties of the PaginatedAlbumLoader (SpecLoader)                     *)
(***************************************************************************)
RECURSIVE ConcatPages(_, _)
ConcatPages(from, to) ==
    IF from > to THEN <<>> ELSE PageItems(from) \o ConcatPages(from + 1, to)

LatestRefresh ==
    LET R == {i \in 1..Len(loads) : loads[i].kind = "refresh"}
    IN IF R = {} THEN 0 ELSE CHOOSE i \in R : \A j \in R : j <= i

\* refresh() and then only loadMore() calls, every one started after the previous
\* load had settled and on the callbacks of a render showing the latest state, all
\* successful so far
SequentialSinceRefresh ==
    /\ LatestRefresh # 0
    /\ \A i \in LatestRefresh..Len(loads) :
          /\ loads[i].alone
          /\ loads[i].phase = "ok"
          /\ (i > LatestRefresh => loads[i].kind = "loadMore")

C7_FailureIsolation ==
    \A i \in 1..Len(loads) :
        (loads[i].kind = "loadMore" /\ loads[i].phase = "failed" /\ loads[i].clean) =>
            /\ albums = loads[i].before.albums
            /\ currentPage = loads[i].before.currentPage
            /\ aHasNextPage = loads[i].before.hasNextPage
            /\ aError.set

C7_Witness ==
    \E i \in 1..Len(loads) :
        /\ loads[i].kind = "loadMore" /\ loads[i].phase = "failed" /\ loads[i].clean
        /\ loads[i].attempt = AlbumsMaxRetries
        /\ albums = PageItems(1)
        /\ aError.set

\* C8: single-flight per URL: a preload(url) issued while an earlier preload(url) is still
\* in flight joins that preload's load (same promise, hence the same result) and starts no
\* second image load, so no URL ever has two loads pending and a URL is cached by at most
\* one successful load.
C8_SingleFlight ==
    /\ \A c \in 1..Len(pcalls) :
        pcalls[c].prior # 0 => (pcalls[c].how = "joined" /\ pcalls[c].load = pcalls[c].prior)
    /\ \A u \in URLs : Cardinality(PendingLoadsOf(imgLoads, u)) <= 1

\* C9: the preload calls of a batch are issued, and their loads started, in descending
\* priority (no priority counts as medium) and, within a priority, in submission order;
\* with maxConcurrent = 1 a load starts only when no earlier load of the batch is pending.
C9_BatchPriorityOrder ==
    \A b \in 1..Len(batches) :
        /\ \A c1, c2 \in 1..Len(pcalls) :
            (pcalls[c1].batch = b /\ pcalls[c2].batch = b /\ c1 < c2) =>
                /\ \/ priorityOrder(pcalls[c1].prio) > priorityOrder(pcalls[c2].prio)
                   \/ /\ priorityOrder(pcalls[c1].prio) = priorityOrder(pcalls[c2].prio)
                      /\ pcalls[c1].subIdx < pcalls[c2].subIdx
                /\ (pcalls[c1].how = "started" /\ pcalls[c2].how = "started") =>
                        pcalls[c1].load < pcalls[c2].load
        /\ batches[b].maxConcurrent = 1 =>
            \A c \in 1..Len(pcalls) :
                (pcalls[c].batch = b /\ pcalls[c].how = "started") => pcalls[c].open = 0
C9_Witness ==
    \E b \in 1..Len(batches) :
        /\ batches[b].maxConcurrent = 1
        /\ batches[b].outcome = "resolved"
        /\ batches[b].items[1].subIdx # 1
        /\ {pcalls[c].prio : c \in 1..Len(pcalls)} = {"high", "none", "low"}
        /\ Cardinality({c \in 1..Len(pcalls) : pcalls[c].how = "started"}) = Len(BatchUrls)

\* C10: preload and preloadBatch never reject; a load error, a timeout and a skip resolve
\* to a result with success = false; a load that settles as failed leaves the cache as it
\* was and removes the URL's in-flight entry, and an admitted preload of a URL whose last
\* load failed starts a fresh load.
C10_FailedLoadSettled(k) ==
    /\ imgLoads[k].promise = "pending"
    /\ imgLoads'[k].promise # "pending"
    /\ ~imgLoads'[k].result.success
C10_NeverRejects ==
    /\ [](/\ \A c \in 1..Len(pcalls) :
             /\ PromiseOf(pcalls[c]) # "rejected"
             /\ pcalls[c].how = "skipped" => ~ResultOf(pcalls[c]).success
             /\ (pcalls[c].afterFailure /\ pcalls[c].admitted) => pcalls[c].how = "started"
          /\ \A k \in 1..Len(imgLoads) :
             (imgLoads[k].img = "errored" \/ imgLoads[k].timer = "fired") =>
                (imgLoads[k].promise = "resolved" /\ ~imgLoads[k].result.success)
          /\ \A b \in 1..Len(batches) : batches[b].outcome # "rejected")
    /\ [][\A k \in 1..Len(imgLoads) :
            C10_FailedLoadSettled(k) =>
                (cache' = cache /\ loadingPromises'[imgLoads[k].url] = 0)]_vars
C10_Witness ==
    /\ \E c \in 1..Len(pcalls) : pcalls[c].afterFailure /\ pcalls[c].how = "started"
    /\ \E c \in 1..Len(pcalls) : pcalls[c].how = "skipped"
    /\ \E k \in 1..Len(imgLoads) : imgLoads[k].result.error = "Timeout"
    /\ \E k \in 1..Len(imgLoads) : imgLoads[k].result.error = "Load error"
    /\ \E b \in 1..Len(batches) : batches[b].outcome = "resolved"

\* C11: a preload(url) of a URL neither cached nor in flight that admission control
\* refuses (data-saver on, estimated footprint above the ceiling, or device memory below
\* the minimum) resolves to success = false with duration 0, starts no load, registers
\* nothing in the in-flight table or the cache and leaves every statistic unchanged.
C11_Refused(size) ==
    \/ saveData
    \/ size * ImageEstimateKB > CacheCeilingMB * KBPerMB
    \/ (deviceMemory # 0 /\ deviceMemory < MinDeviceMemoryGB)
C11_ProbeSizes == 0..((CacheCeilingMB * KBPerMB) \div ImageEstimateKB + 2)
C11_AdmissionRefusal ==
    [][/\ Len(pcalls') = Len(pcalls) + 1 =>
            LET c == pcalls'[Len(pcalls')] IN
            (/\ c.url \notin cache
             /\ loadingPromises[c.url] = 0
             /\ C11_Refused(Cardinality(cache))) =>
                /\ c.how = "skipped"
                /\ ~ResultOf(c).success
                /\ ResultOf(c).duration = 0
                /\ imgLoads' = imgLoads
                /\ loadingPromises' = loadingPromises
                /\ cache' = cache
                /\ stats' = stats
       /\ \A n \in C11_ProbeSizes :
            C11_Refused(n) <=> ~shouldPreload(DefaultOptions, n)]_vars
C11_Witness ==
    /\ pcalls # <<>>
    /\ pcalls[Len(pcalls)].how = "skipped"
    /\ saveData
    /\ \E u \in URLs : loadingPromises[u] # 0

\* C12: sentinel lifecycle: once the sentinel reference has changed from A to B (or to
\* null) A is no longer observed and B, if non-null, is observed while the hook is enabled,
\* so at most the current sentinel is observed; after teardown the observer is
\* disconnected and nothing is observed.
C12_SentinelLifecycle ==
    /\ obsTargets \subseteq {triggerEl}
    /\ (mounted /\ enabled /\ triggerEl # 0) => triggerEl \in obsTargets
    /\ ~mounted => (~obsConnected /\ obsTargets = {})

\* C13: when the fetch callback rejects, error becomes the rejection's message ('Unknown
\* error occurred' for a value that is not an Error) and isLoading becomes false; starting
\* an attempt sets error to null; a success leaves error as it is, so error is null all
\* through an attempt that no other attempt overlaps and is still null when it succeeds.
C13_ErrorMessages ==
    {t.msg : t \in {x \in ScrollThrowables : x.isError}} \cup {<<"Unknown", "error", "occurred">>}
C13_ErrorTransition ==
    /\ [](/\ sError.set => sError.msg \in C13_ErrorMessages
          /\ (inflight = 1 /\ lastAttempt.lone) => sError = NoMsg)
    /\ [][/\ CallbackReject => (sError'.set /\ isLoading' = FALSE)
          /\ CallbackResolve => (sError' = sError /\ isLoading' = FALSE)
          /\ calls' = calls + 1 => (sError' = NoMsg /\ isLoading' = TRUE)]_vars
C13_Witness ==
    /\ calls >= 2
    /\ inflight = 0
    /\ lastAttempt.afterError
    /\ lastAttempt.lone
    /\ sError = NoMsg
    /\ ~isLoading

\* C14: refresh(), from any state, empties the accumulated list, sets hasNextPage = true
\* and starts a fetch of page 1; at the moment that fetch has succeeded and refresh() has
\* settled the list is exactly page 1's items, currentPage = 1 and hasNextPage is page 1's.
C14_RefreshSettles(i) ==
    /\ loads[i].kind = "refresh"
    /\ loads[i].phase = "fetching"
    /\ loads'[i].phase = "ok"
C14_RefreshReplaces ==
    [][/\ RefreshCall =>
            /\ albums' = <<>>
            /\ aHasNextPage' = TRUE
            /\ loads'[Len(loads')].page = 1
            /\ loads'[Len(loads')].phase = "fetching"
       /\ \A i \in 1..Len(loads) :
            C14_RefreshSettles(i) =>
                /\ albums' = FetchPage(1).data
                /\ currentPage' = 1
                /\ aHasNextPage' = FetchPage(1).hasNextPage
                /\ loading' = FALSE]_vars
C14_Witness ==
    \E i \in 1..Len(loads) :
        /\ loads[i].kind = "refresh" /\ loads[i].phase = "ok" /\ loads[i].clean
        /\ \E j \in 1..Len(loads) : j # i /\ loads[j].phase = "ok" /\ loads[j].page = 2
        /\ albums = PageItems(1)
        /\ currentPage = 1

\* C15: retry() made on the callbacks of a render showing the current state fetches
\* exactly the remembered failed page p, which is the page of a load that failed
\* terminally; when it succeeds, for p > 1 page p's items are appended after the
\* accumulated items, which stay as they are, and for p = 1 the list is replaced by page
\* 1's items; when no failed page is remembered retry() starts no fetch.
C15_RetryStarted ==
    /\ Len(loads') = Len(loads) + 1
    /\ loads'[Len(loads')].kind = "retry"
C15_RetrySettles(i) ==
    /\ loads[i].kind = "retry"
    /\ loads[i].phase = "fetching"
    /\ loads'[i].phase = "ok"
C16_SingleFetchInOrder ==
    /\ Cardinality({i \in 1..Len(loads) : InFlight(loads[i])}) <= 1
    /\ \A i, j \in 1..Len(loads) :
        (/\ i < j
         /\ loads[i].phase = "ok" /\ loads[j].phase = "ok"
         /\ \A k \in (i + 1)..j : ~loads[k].reset) => loads[i].page < loads[j].page

\* C17: under the default retry predicate a failure is retried only when its message
\* denotes a transient condition (network, timeout, fetch), and a failure whose message
\* denotes a structural condition ('not found', 'invalid') ends the call at once.
C17_Transient(err) ==
    \/ Includes(err.msg, <<"network">>)
    \/ Includes(err.msg, <<"timeout">>)
    \/ Includes(err.msg, <<"fetch">>)
C17_Structural(err) ==
    \/ Includes(err.msg, <<"not", "found">>)
    \/ Includes(err.msg, <<"invalid">>)
C17_DefaultPredicate ==
    (cfg.cond = "default" /\ nThrown >= 1 /\ lastThrown.isError) =>
        /\ rpc = "delaying" => C17_Transient(lastThrown)
        /\ C17_Structural(lastThrown) =>
            (rpc = "rejected" /\ outcome = [kind |-> "rejected", err |-> lastThrown])
        /\ (C17_Structural(lastThrown) /\ nThrown = 1) => invocations = 1

\* C18: a rejection value that is not an Error is replaced by a generic Error with the
\* message 'Unknown error'; the retry predicate is evaluated on that Error, and that
\* Error is what lastError holds and what execute rethrows.
C18_Generic == [inst |-> 0, isError |-> TRUE, type |-> "Error", msg |-> <<"Unknown", "error">>]
C18_NonErrorNormalised ==
    [][(nThrown' = nThrown + 1 /\ ~lastThrown'.isError) =>
          /\ lastError' = C18_Generic
          /\ (rpc' = "rejected") =
                (attempt >= cfg.maxRetries \/ ~retryCondition(cfg.cond, C18_Generic))
          /\ rpc' = "rejected" => outcome' = [kind |-> "rejected", err |-> C18_Generic]
          /\ rpc' # "rejected" => rpc' = "delaying"]_vars
C18_Witness ==
    /\ rpc = "rejected"
    /\ lastThrown.type = "object"
    /\ cfg.cond = "default" /\ cfg.maxRetries >= 1
    /\ invocations = 1
    /\ lastError = C18_Generic
    /\ outcome.err = C18_Generic

\* C19: a terminal failure is never swallowed: a fetch failure with the retries exhausted
\* or with an error the predicate refuses ends the page load as failed, with error set,
\* loading = false and the page remembered; error and the remembered page are cleared,
\* and loading set, only by the start of a page load.
C19_TerminalFailure(i) ==
    /\ loads[i].phase = "fetching"
    /\ loads'[i].phase # "fetching"
    /\ fetchFailures' = fetchFailures + 1
    /\ \/ loads[i].attempt >= AlbumsMaxRetries
       \/ Includes(lastError'.msg, <<"not", "found">>)
       \/ Includes(lastError'.msg, <<"invalid">>)
C19_NoSwallowedFailure ==
    [][/\ \A i \in 1..Len(loads) :
            C19_TerminalFailure(i) =>
                /\ loads'[i].phase = "failed"
                /\ aError'.set
                /\ loading' = FALSE
                /\ lastFailedPage' = loads[i].page
       /\ ((aError.set /\ ~aError'.set) \/ (lastFailedPage # 0 /\ lastFailedPage' = 0)
             \/ (~loading /\ loading')) => Len(loads') = Len(loads) + 1]_vars
C19_Witness ==
    /\ loads # <<>>
    /\ loads[Len(loads)].phase = "failed"
    /\ loads[Len(loads)].attempt = AlbumsMaxRetries
    /\ loads[Len(loads)].kind = "refresh"
    /\ aError.set /\ ~loading /\ lastFailedPage = 1

\* C20: the delay before retry n without jitter, min(initialDelay * backoffFactor^(n-1),
\* maxDelay), is non-decreasing in n and never above maxDelay; the jitter is below 10% of
\* that capped delay and is added after the cap.
C20_Retries == 1..(MaxRetriesCfg + 2)
C20_BackoffMonotoneCapped ==
    /\ \A n \in C20_Retries :
        /\ calculateDelayBase(cfg, n - 1) <= calculateDelayBase(cfg, n)
        /\ calculateDelayBase(cfg, n - 1) <= cfg.maxDelay
        /\ calculateDelayBase(cfg, n - 1) >= Min(cfg.initialDelay, cfg.maxDelay)
    /\ waited >= 1 =>
        /\ lastDelay.base =
              Min((cfg.initialDelay * Pow(cfg.backoffNum, waited - 1))
                      \div Pow(cfg.backoffDen, waited - 1), cfg.maxDelay)
        /\ lastDelay.base <= cfg.maxDelay
        /\ lastDelay.jitter >= 0
        /\ 10 * lastDelay.jitter <= lastDelay.base
C20_Witness ==
    /\ waited = 2
    /\ lastDelay.base = cfg.maxDelay
    /\ lastDelay.jitter > 0
    /\ cfg.initialDelay * Pow(cfg.backoffNum, 1) > cfg.maxDelay * Pow(cfg.backoffDen, 1)

\* C21: the retry state is reset at the start of each execute call: from the start of
\* a call until its first invocation of the operation has settled, retryCount = 0,
\* retrying = false and lastError = null, whatever the previous call left behind.
C21_ResetAtStart ==
    (rpc = "calling" /\ invocations = 1) =>
        (retryCount = 0 /\ retrying = FALSE /\ lastError = NoError)

\* C22: when every invocation settles and every backoff delay elapses, each execute call
\* eventually resolves or rejects; it never invokes the operation more than
\* maxRetries + 1 times, and retrying is false once it has settled.
C22_Running == rpc \in {"calling", "delaying"}
C22_Settled == rpc \in {"resolved", "rejected"}
C22_Terminates ==
    /\ [](/\ invocations <= cfg.maxRetries + 1
          /\ C22_Settled => (retrying = FALSE /\ outcome.kind = rpc))
    /\ (C22_Running ~> C22_Settled)
C22_Witness ==
    /\ rpc = "resolved"
    /\ execs = MaxExecs
    /\ cfg.maxRetries = MaxRetriesCfg
    /\ invocations = cfg.maxRetries + 1
    /\ waited = cfg.maxRetries

\* C23: loadMore(), called directly or by a sentinel visibility event, fetches only when
\* hasNextPage is true and loading is false, and then fetches page currentPage + 1; so
\* once a loaded page reported hasNextPage = false it fetches nothing until refresh().
C23_LoadMoreGuarded ==
    [][LoadMoreCall =>
          /\ aHasNextPage /\ ~loading
          /\ loads'[Len(loads')].page = currentPage + 1]_vars

\* C24: the accumulated list never contains the same album ID twice.
C24_NoDuplicateIds ==
    \A i, j \in 1..Len(albums) : albums[i] = albums[j] => i = j

\* C25: error # null implies retrying = false, and retrying = true implies
\* loading = true.
C25_StatusSurface ==
    /\ aError.set => ~retrying
    /\ retrying => loading

\* C26: with enabled = false there is no observer and the sentinel is not observed, so a
\* visibility event can start a fetch only when enabled is true; when enabled changes
\* from false to true with a sentinel attached, that sentinel becomes observed.
C26_EnabledGatesObservation ==
    /\ [](~enabled => (~obsConnected /\ obsTargets = {}))
    /\ [][/\ Intersect => enabled
          /\ (~enabled /\ enabled' /\ triggerEl # 0) => obsTargets' = {triggerEl}]_vars
C26_Witness ==
    /\ mounted
    /\ ~enabled
    /\ triggerEl # 0 /\ depEl = triggerEl
    /\ obsTargets = {}
    /\ calls > 0

\* C27: once a load of url has succeeded, url stays in the cache until the next clear();
\* a preload(url) with url in the cache returns success = true with duration 0, starts
\* no load and registers nothing, whatever the data-saver and memory signals are, and
\* the statistics count it as one successful attempt and one cache hit.
C27_LatestCall == pcalls'[Len(pcalls')]
C27_CacheHit ==
    /\ [](clears = 0 =>
            \A k \in 1..Len(imgLoads) :
                (imgLoads[k].promise = "resolved" /\ imgLoads[k].result.success) =>
                    imgLoads[k].url \in cache)
    /\ [][/\ ~(cache \subseteq cache') => clears' = clears + 1
          /\ (Len(pcalls') = Len(pcalls) + 1 /\ C27_LatestCall.url \in cache) =>
                /\ C27_LatestCall.how = "hit"
                /\ ResultOf(C27_LatestCall).success
                /\ ResultOf(C27_LatestCall).duration = 0
                /\ imgLoads' = imgLoads
                /\ loadingPromises' = loadingPromises
                /\ cache' = cache
                /\ stats' = [stats EXCEPT !.total = @ + 1, !.successful = @ + 1,
                                          !.hits = @ + 1]]_vars
C27_Witness ==
    /\ pcalls # <<>>
    /\ pcalls[Len(pcalls)].how = "hit"
    /\ ~pcalls[Len(pcalls)].admitted
    /\ saveData
    /\ clears = 0
    /\ stats.hits = 1 /\ stats.successful = 2

\* C28: a batch calls preload for its sorted items in order, in consecutive chunks of at
\* most maxConcurrent; when a chunk begins no load awaited by the batch is unsettled, so
\* the batch never awaits more than maxConcurrent unsettled loads; it resolves only after
\* preload was called for every item and every one of those calls has settled.
C28_CallsOf(b) == SelectSeq(pcalls, LAMBDA c : c.batch = b)
C28_ChunkBarrier ==
    \A b \in 1..Len(batches) :
        LET cs == C28_CallsOf(b)
            bt == batches[b]
        IN
        /\ Cardinality(OpenLoadsOf(Now, b)) <= bt.maxConcurrent
        /\ Len(cs) <= Len(bt.items)
        /\ Len(cs) % bt.maxConcurrent = 0 \/ Len(cs) = Len(bt.items)
        /\ \A n \in 1..Len(cs) :
            /\ cs[n].url = bt.items[n].url
            /\ cs[n].subIdx = bt.items[n].subIdx
            /\ cs[n].open <= (n - 1) % bt.maxConcurrent
        /\ bt.outcome = "resolved" =>
            /\ Len(cs) = Len(bt.items)
            /\ \A n \in 1..Len(cs) : PromiseOf(cs[n]) # "pending"
C28_Witness ==
    /\ batches # <<>>
    /\ batches[1].outcome = "resolved"
    /\ batches[1].maxConcurrent = 2
    /\ Len(batches[1].items) = 3
    /\ Len(C28_CallsOf(1)) = 3
    /\ C28_CallsOf(1)[3].how = "started"
    /\ C28_CallsOf(1)[3].open = 0

\* C29: the number of underlying image loads in flight never exceeds maxConcurrent.
C29_GlobalConcurrencyBound ==
    batches # <<>> =>
        Cardinality({k \in 1..Len(imgLoads) : imgLoads[k].img = "loading"})
            <= batches[1].maxConcurrent

C31_StatsCountOnce ==
    /\ stats.total = stats.successful + stats.failed
    /\ clears = 0 =>
        stats.total = Cardinality({c \in 1..Len(pcalls) : pcalls[c].how = "hit"})
                        + Cardinality({k \in 1..Len(imgLoads) : imgLoads[k].promise # "pending"})

\* C34: whenever no page load is in progress, the accumulated list is empty or is the
\* concatenation of pages 1..currentPage.
C34_Contiguity ==
    ~AnyInFlight => (albums = <<>> \/ albums = ConcatPages(1, currentPage))

\* C35: page 1 is fetched as an initial load at most once.
C35_InitialLoadOnce ==
    Cardinality({i \in 1..Len(loads) : loads[i].kind = "initial"}) <= 1

\* C36: in every quiescent state (the latest render has seen the current state and the
\* current sentinel) where enabled is true and a sentinel is attached, the held observer
\* is connected and observes that sentinel.
C36_Quiescent ==
    /\ mounted
    /\ depEl = triggerEl
    /\ rIsLoading = isLoading
    /\ rHasNextPage = hasNextPage
C36_ObserverObservesSentinel ==
    (C36_Quiescent /\ enabled /\ triggerEl # 0) =>
        (obsConnected /\ triggerEl \in obsTargets)

\* C37: a load started before a clear() changes neither the cache nor the statistics nor
\* the registered loads when it settles, and the loads started after the latest clear()
\* are single-flight per URL.
C37_ClearIsolation ==
    /\ [](\A u \in URLs :
            Cardinality({k \in PendingLoadsOf(imgLoads, u) : imgLoads[k].epoch = clears}) <= 1)
    /\ [][\A k \in 1..Len(imgLoads) :
            (imgLoads[k].epoch < clears /\ imgLoads'[k] # imgLoads[k]) =>
                (cache' = cache /\ stats' = stats /\ loadingPromises' = loadingPromises)]_vars

\* C32: smartPreload hands every item with userInteraction to preload at priority high
\* and before every item without it; the items without userInteraction follow in order
\* of descending importance, at priority high for importance > 0.7, medium for
\* importance > 0.3 and low otherwise; the priority sort of preloadBatch keeps the order
\* of the smart sort.
C32_Source(i) == smartImages[smartStarted[i].url]
C32_SmartOrder ==
    smartCalled =>
        /\ Len(smartStarted) = Len(smartImages)
        /\ {smartStarted[i].url : i \in 1..Len(smartStarted)} = 1..Len(smartImages)
        /\ \A i \in 1..Len(smartStarted) :
            /\ smartStarted[i].subIdx = i
            /\ C32_Source(i).userInteraction => smartStarted[i].prio = "high"
            /\ ~C32_Source(i).userInteraction =>
                smartStarted[i].prio =
                    (IF C32_Source(i).importance >= HighImportance + 1 THEN "high"
                     ELSE IF C32_Source(i).importance >= MediumImportance + 1 THEN "medium"
                     ELSE "low")
        /\ \A i, j \in 1..Len(smartStarted) :
            i < j =>
                /\ C32_Source(j).userInteraction => C32_Source(i).userInteraction
                /\ (~C32_Source(i).userInteraction /\ ~C32_Source(j).userInteraction) =>
                      C32_Source(i).importance >= C32_Source(j).importance
C32_Witness ==
    /\ smartCalled
    /\ Len(smartStarted) = 3
    /\ smartStarted[1].url = 3
    /\ smartImages[3].userInteraction /\ smartImages[3].importance = MediumImportance
    /\ ~smartImages[1].userInteraction /\ smartImages[1].importance = HighImportance
    /\ ~smartImages[2].userInteraction /\ smartImages[2].importance = HighImportance + 1
    /\ smartStarted[2].url = 2 /\ smartStarted[2].prio = "high"
    /\ smartStarted[3].url = 1 /\ smartStarted[3].prio = "medium"

\* C33: the thumbnail window has at most preloadAhead items; the importance of an item
\* is max(0, 1 - distance / preloadAhead) for its distance from the focus index, so it
\* lies in 0..1 and does not grow with the distance; exactly the window items at distance
\* <= 1 from the focus index have userInteraction = true.
C33_Distance(i) == Abs(photoWindow[i].index - photoFocus)
C33_WindowShape ==
    photoPhase \in {"thumbs", "full", "done"} =>
        /\ Len(photoWindow) <= preloadAhead
        /\ \A i \in 1..Len(photoWindow) :
            /\ photoWindow[i].index \in 0..(photoCount - 1)
            /\ photoWindow[i].importance =
                  (IF C33_Distance(i) >= preloadAhead THEN 0
                   ELSE preloadAhead - C33_Distance(i))
            /\ photoWindow[i].importance \in 0..preloadAhead
            /\ photoWindow[i].userInteraction = (C33_Distance(i) \in {0, 1})
        /\ \A i, j \in 1..Len(photoWindow) :
            /\ i < j => photoWindow[i].index < photoWindow[j].index
            /\ C33_Distance(i) < C33_Distance(j) =>
                  photoWindow[i].importance > photoWindow[j].importance
C33_Witness ==
    /\ photoPhase = "done"
    /\ preloadAhead = MaxAhead
    /\ Len(photoWindow) = preloadAhead
    /\ photoFocus = 0
    /\ photoWindow[1].userInteraction /\ photoWindow[1].importance = preloadAhead
    /\ ~photoWindow[3].userInteraction /\ photoWindow[3].importance = preloadAhead - 2

\* C39: for a non-empty photo list and a focus index 0 <= index < length, the thumbnail
\* window contains the photo at the focus index and its existing neighbours at
\* index - 1 and index + 1.
C39_FocusInWindow ==
    (photoPhase \in {"thumbs", "full", "done"} /\ photoFocus < photoCount) =>
        \A p \in {photoFocus - 1, photoFocus, photoFocus + 1} \cap 0..(photoCount - 1) :
            \E i \in 1..Len(photoWindow) : photoWindow[i].index = p

\* C40: when no preload pass is in progress isPreloading is false, and preloadingCount
\* is never negative.
C40_StatusSettles ==
    /\ albumPhase \in {"idle", "returned", "done"} => ~albumState.isPreloading
    /\ albumState.preloadingCount >= 0

\* C38: no load starts while the estimated footprint of the cache exceeds the ceiling,
\* and the number of cached entries never exceeds the smallest count whose estimate
\* exceeds the ceiling.
C38_MemoryCeiling ==
    /\ [][ceilStarted' > ceilStarted => ~memoryCeilingExceeded(ceilCached)]_vars
    /\ [](ceilCached >= 1 => ~memoryCeilingExceeded(ceilCached - 1))

====
